---- MODULE Spec2Model ----
(***************************************************************************)
(* A model of jsonloader (src/jsonloader/jsonloader.py): JSONWrapper's     *)
(* construction from loaded JSON, the views of a constructed object        *)
(* (__eq__, __len__, __iter__, __getitem__) and wrapper_factory's cache.   *)
(*                                                                         *)
(* Loaded JSON values and constructed objects are tagged records:          *)
(*   [t |-> "int", i |-> n]    [t |-> "str", s |-> text]   [t |-> "null"]  *)
(*   [t |-> "list", l |-> <<v1, ..., vn>>]                                 *)
(*   [t |-> "dict", d |-> [key |-> value]]                                 *)
(*   [t |-> "obj", cls |-> class, o |-> [attribute |-> value]]             *)
(* and a raised exception is [t |-> "err", exc |-> class, site |-> place]. *)
(* A mapping's items are visited in the order of KeyOrder. The interpreter *)
(* decides hasattr(cls, '__annotations__') for a class whose body has no   *)
(* annotations: lazyAnn is TRUE where the attribute is created on access.  *)
(***************************************************************************)
EXTENDS Naturals, Sequences, FiniteSets, TLC

VARIABLES pc, cls, input, lazyAnn, result, out, cache, nextId, ret

vars == <<pc, cls, input, lazyAnn, result, out, cache, nextId, ret>>

------------------------------------------------------------------------------
(* Values *)

I(n) == [t |-> "int", i |-> n]
S(x) == [t |-> "str", s |-> x]
Null == [t |-> "null"]
L(q) == [t |-> "list", l |-> q]
D(f) == [t |-> "dict", d |-> f]
O(c, f) == [t |-> "obj", cls |-> c, o |-> f]
Err(e, where) == [t |-> "err", exc |-> e, site |-> where]

IsErr(r) == r.t = "err"
IsDict(v) == v.t = "dict"
IsList(v) == v.t = "list"
IsObj(v) == v.t = "obj"

Empty == [k \in {} |-> Null]

(* The order in which the items of a mapping are visited. *)
KeyOrder == <<"a", "b", "c", "m", "n">>

Items(f) == SelectSeq(KeyOrder, LAMBDA k : k \in DOMAIN f)

------------------------------------------------------------------------------
(* Declared types and classes *)

TStr == [k |-> "str"]
TInt == [k |-> "int"]
TList(e) == [k |-> "List", elem |-> e]
TBare == [k |-> "bare"]
TCls(c) == [k |-> "cls", cls |-> c]

NoFlags == [annotations |-> FALSE, annotations_strict |-> FALSE,
            annotations_type |-> FALSE]

Flags(a, s, ty) == [annotations |-> a, annotations_strict |-> s,
                    annotations_type |-> ty]

AllFlags == [annotations : BOOLEAN, annotations_strict : BOOLEAN,
             annotations_type : BOOLEAN]

(* A class: name, whether its body has annotations, the annotations        *)
(* (field |-> declared type), the class attributes that set defaults       *)
(* (field |-> value) and the flags its variant binds to __new__.           *)
Class(n, h, an, at, fl) ==
    [name |-> n, hasAnn |-> h, ann |-> an, attrs |-> at, flags |-> fl]

JSONWrapper == Class("JSONWrapper", FALSE, Empty, Empty, NoFlags)

(* hasattr(cls, '__annotations__'): a class without annotations has the    *)
(* attribute only on interpreters that create it on first access.          *)
HasAnnotations(c, lazy) == c.hasAnn \/ lazy

------------------------------------------------------------------------------
(* typeguard.check_type(argname, value, expected_type): TRUE when it       *)
(* returns, FALSE when it raises TypeError. A class is checked with        *)
(* isinstance, a typing.List[...] element by element, and a list literal   *)
(* such as [int] is not checked at all (lines 205-207 say so).             *)

(* check_type that looks at the sequence and not at its elements. *)
check_type_shallow(v, ty) ==
    CASE ty.k = "str" -> v.t = "str"
      [] ty.k = "int" -> v.t = "int"
      [] ty.k = "List" -> v.t = "list"
      [] ty.k = "bare" -> TRUE
      [] ty.k = "cls" -> v.t = "obj" /\ v.cls = ty.cls

RECURSIVE check_type(_, _)
check_type(v, ty) ==
    CASE ty.k = "str" -> v.t = "str"
      [] ty.k = "int" -> v.t = "int"
      [] ty.k = "List" ->
            /\ v.t = "list"
            /\ \A j \in 1..Len(v.l) : check_type(v.l[j], ty.elem)
      [] ty.k = "bare" -> TRUE
      [] ty.k = "cls" -> v.t = "obj" /\ v.cls = ty.cls

------------------------------------------------------------------------------
(* JSONWrapper.__new__ *)

FirstErr(rs) ==
    LET bad == SelectSeq(rs, IsErr)
    IN  IF bad = <<>> THEN Null ELSE Head(bad)

(* The annotated fields for which hasattr(cls, k): a default is set. *)
Defaulted(c) == {k \in DOMAIN c.ann : k \in DOMAIN c.attrs}

(* keys_a with keys_a.discard(k) left out. *)
keys_a_not_discarded(c) == DOMAIN c.ann

(* keys_a and keys_j once the loop has discarded the defaulted fields. *)
keys_a(c) == DOMAIN c.ann \ Defaulted(c)

keys_j(c, obj) == DOMAIN obj.d \ Defaulted(c)

(* Some default fails check_type against its annotation. *)
DefaultTypeError(c) ==
    \E k \in Defaulted(c) : ~ check_type(c.attrs[k], c.ann[k])

(* keys_a.difference(keys_j): not empty when keys_a is no subset of keys_j *)
MissingFields(c, obj) == keys_a(c) \ keys_j(c, obj)

(* The strict check with its operands exchanged. *)
ExtraKeys_exchanged(c, obj) == keys_a(c) \ keys_j(c, obj)

(* keys_j.difference(keys_a): not empty when keys_j is no subset of keys_a *)
ExtraKeys(c, obj) == keys_j(c, obj) \ keys_a(c)

(* The type check of the item k, v of the input, k being annotated. *)
TypeCheck(c, obj, k) ==
    IF c.ann[k].k = "bare" THEN Err("TypeError", "barelist")
    ELSE IF ~ check_type(obj.d[k], c.ann[k]) THEN Err("TypeError", "type")
    ELSE Null

(* No default is set on the new instance. *)
DefaultsToSet_none(default_attributes, obj) == {}

(* The defaults set on the new instance: those whose key was not passed. *)
DefaultsToSet(default_attributes, obj) ==
    {k \in DOMAIN default_attributes : k \notin DOMAIN obj.d}

(* issubclass(type_a, JSONWrapper); for a type that is no class it raises  *)
(* TypeError, which the except clause takes as False.                      *)
IsWrapperType(ty) == ty.k = "cls"

RECURSIVE New(_, _, _, _, _, _)
New(c, obj, annotations0, annotations_strict, annotations_type, lazy) ==
    LET annotations ==
            /\ (annotations0 \/ annotations_type \/ annotations_strict)
            /\ HasAnnotations(c, lazy)
        checked == annotations /\ IsDict(obj)
        default_attributes ==
            IF checked THEN [k \in Defaulted(c) |-> c.attrs[k]] ELSE Empty
        typed == IF annotations_type /\ HasAnnotations(c, lazy) /\ IsDict(obj)
                 THEN SelectSeq(Items(obj.d), LAMBDA k : k \in DOMAIN c.ann)
                 ELSE <<>>
        typeErr == FirstErr([j \in 1..Len(typed) |-> TypeCheck(c, obj, typed[j])])
        Generic(v) == New(JSONWrapper, v, annotations, annotations_strict,
                          annotations_type, lazy)
        Child(k) ==
            IF annotations /\ k \in DOMAIN c.ann /\ IsWrapperType(c.ann[k])
            THEN LET type_a == c.ann[k].cls
                     r == New(type_a, obj.d[k], type_a.flags.annotations,
                              type_a.flags.annotations_strict,
                              type_a.flags.annotations_type, lazy)
                 IN  (* a TypeError raised by type_a(v) is caught by the    *)
                     (* except clause too: the generic case follows         *)
                     IF IsErr(r) /\ r.exc = "TypeError"
                     THEN Generic(obj.d[k])
                     ELSE r
            ELSE Generic(obj.d[k])
    IN  IF checked /\ annotations_type /\ DefaultTypeError(c)
        THEN Err("TypeError", "default")
        ELSE IF checked /\ MissingFields(c, obj) # {}
        THEN Err("KeyError", "missing")
        ELSE IF checked /\ annotations_strict /\ ExtraKeys(c, obj) # {}
        THEN Err("KeyError", "unexpected")
        ELSE IF IsErr(typeErr)
        THEN typeErr
        ELSE IF IsDict(obj)
        THEN LET its == Items(obj.d)
                 sub == [k \in DOMAIN obj.d |-> Child(k)]
                 bad == FirstErr([j \in 1..Len(its) |-> sub[its[j]]])
                 dflt == DefaultsToSet(default_attributes, obj)
             IN  IF IsErr(bad) THEN bad
                 ELSE O(c, [k \in dflt \cup DOMAIN obj.d |->
                              IF k \in DOMAIN obj.d THEN sub[k]
                              ELSE default_attributes[k]])
        ELSE IF IsList(obj)
        THEN LET sub == [j \in 1..Len(obj.l) |-> Generic(obj.l[j])]
                 bad == FirstErr(sub)
             IN  IF IsErr(bad) THEN bad ELSE L(sub)
        ELSE obj

(* cls(json_loaded_object): the flags are those the variant bound. *)
Call(c, obj, lazy) ==
    New(c, obj, c.flags.annotations, c.flags.annotations_strict,
        c.flags.annotations_type, lazy)

------------------------------------------------------------------------------
(* The views of a constructed object *)

Bool(b) == [t |-> "bool", b |-> b]

RECURSIVE PyEq(_, _)
RECURSIVE eq(_, _)

(* dict.__eq__: the same keys, holding equal values. *)
DictEq(f, g) ==
    /\ DOMAIN f = DOMAIN g
    /\ \A k \in DOMAIN f : PyEq(f[k], g[k])

(* __eq__ raising TypeError for a value that is no mapping and no object. *)
eq_raising(self, other) ==
    IF IsDict(other) THEN Bool(DictEq(self.o, other.d))
    ELSE IF IsObj(other) THEN Bool(DictEq(self.o, other.o))
    ELSE Err("TypeError", "eq")

(* JSONWrapper.__eq__(self, other) *)
eq(self, other) ==
    IF IsDict(other) THEN Bool(DictEq(self.o, other.d))
    ELSE IF IsObj(other) THEN Bool(DictEq(self.o, other.o))
    ELSE (* try: self.__dict__ == other; a dict compared with a value that  *)
         (* is no mapping is unequal, and the comparison does not raise     *)
         Bool(FALSE)

(* x == y on values: an object on either side answers with its __eq__. *)
PyEq(x, y) ==
    IF IsObj(x) THEN eq(x, y).b
    ELSE IF IsObj(y) THEN eq(y, x).b
    ELSE IF IsDict(x) /\ IsDict(y) THEN DictEq(x.d, y.d)
    ELSE IF IsList(x) /\ IsList(y)
    THEN /\ Len(x.l) = Len(y.l)
         /\ \A j \in 1..Len(x.l) : PyEq(x.l[j], y.l[j])
    ELSE x = y

(* __len__ counting the class attributes beside the instance's fields. *)
len_with_class_attributes(self) ==
    Cardinality(DOMAIN self.o \cup DOMAIN self.cls.attrs)

(* JSONWrapper.__len__ *)
len(self) == Cardinality(DOMAIN self.o)

(* JSONWrapper.__iter__, collected by dict(): a value that is itself an    *)
(* object is converted by dict(v), any other value is yielded as it is.    *)
RECURSIVE dict(_)
dict(self) ==
    D([k \in DOMAIN self.o |->
         IF IsObj(self.o[k]) THEN dict(self.o[k]) ELSE self.o[k]])

(* hasattr(self, item): an instance attribute, or an attribute of the class *)
hasattr(self, item) == item \in DOMAIN self.o \/ item \in DOMAIN self.cls.attrs

(* JSONWrapper.__getitem__ *)
getitem(self, item) ==
    IF ~ hasattr(self, item) THEN Err("KeyError", "getitem")
    ELSE IF item \in DOMAIN self.o THEN self.o[item]
    ELSE self.cls.attrs[item]

------------------------------------------------------------------------------
(* wrapper_factory and its lru_cache *)

Kw(n, v) == [name |-> n, value |-> v]

KwNames == {"annotations", "annotations_strict", "annotations_type"}

(* The keyword arguments of one call, in the order they are written. *)
Sigs == {q \in UNION {[1..m -> [name : KwNames, value : BOOLEAN]] : m \in 0..3} :
            \A i, j \in 1..Len(q) : i # j => q[i].name # q[j].name}

(* The value a parameter takes: the one passed, or the default False. *)
Arg(sig, n) == \E j \in 1..Len(sig) : sig[j].name = n /\ sig[j].value

Triple(sig) == Flags(Arg(sig, "annotations"), Arg(sig, "annotations_strict"),
                     Arg(sig, "annotations_type"))

name_suffix(fl) ==
    LET ts == (IF fl.annotations_type THEN <<"Type">> ELSE <<>>)
              \o (IF fl.annotations_strict THEN <<"Strict">> ELSE <<>>)
    IN  IF Len(ts) = 0 /\ fl.annotations THEN <<"Annotations">> ELSE ts

BaseVariant == [id |-> 0, name |-> <<"JSONWrapper">>, flags |-> NoFlags]

(* The body of wrapper_factory, run on a cache miss; id is the identity of *)
(* the class that type(...) creates.                                       *)
wrapper_factory_body(fl, id) ==
    IF fl = NoFlags THEN BaseVariant
    ELSE [id |-> id, name |-> <<"JSONWrapper">> \o name_suffix(fl), flags |-> fl]

(* functools.lru_cache keys a call by its keyword arguments as passed. *)
cache_key(sig) == sig

SigAnnotations == <<Kw("annotations", TRUE)>>
SigTypeStrict == <<Kw("annotations_type", TRUE), Kw("annotations_strict", TRUE)>>
SigType == <<Kw("annotations_type", TRUE)>>
SigStrict == <<Kw("annotations_strict", TRUE)>>

(* The cache once the module is imported (lines 346-354). *)
ImportCache ==
    LET ks == <<SigAnnotations, SigTypeStrict, SigType, SigStrict>>
    IN  [k \in {cache_key(ks[j]) : j \in 1..4} |->
            LET j == CHOOSE i \in 1..4 : cache_key(ks[i]) = k
            IN  wrapper_factory_body(Triple(ks[j]), j)]

ImportNextId == Len(<<SigAnnotations, SigTypeStrict, SigType, SigStrict>>) + 1

(* The keyword arguments JSONclass's decorator passes (lines 112-115). *)
DecoratorSig(fl) ==
    <<Kw("annotations", fl.annotations),
      Kw("annotations_strict", fl.annotations_strict),
      Kw("annotations_type", fl.annotations_type)>>

------------------------------------------------------------------------------
(* The inputs and the classes the model is run on *)

MaxLen == 2
MaxCalls == 2

Seqs(V, n) == UNION {[1..m -> V] : m \in 0..n}
Maps(K, V) == UNION {[Ks -> V] : Ks \in SUBSET K}

One(k, v) == [x \in {k} |-> v]

Scalars == {I(1), S("x")}

Absent == [t |-> "absent"]

(* The values of the input's keys a, b and c. *)
ValuesA == Scalars
ValuesB ==
    {I(1)}
    \cup {L(q) : q \in Seqs(Scalars, MaxLen)}
    \cup {D(f) : f \in {g \in Maps({"n", "m"}, Scalars) :
                          "m" \in DOMAIN g => g["m"] = I(1)}}
    \cup {L(<<D(One("n", I(1)))>>),
          D(One("n", D(One("n", I(1))))),
          D(One("n", L(<<D(One("n", I(1)))>>)))}
ValuesC == {I(1), L(<<D(One("n", I(1)))>>)}

Mapping(va, vb, vc) ==
    LET all == [k \in {"a", "b", "c"} |->
                   IF k = "a" THEN va ELSE IF k = "b" THEN vb ELSE vc]
    IN  D([k \in {x \in {"a", "b", "c"} : all[x] # Absent} |-> all[k]])

Inputs ==
    {Mapping(va, vb, vc) : va \in ValuesA \cup {Absent},
                           vb \in ValuesB \cup {Absent},
                           vc \in ValuesC \cup {Absent}}
    \cup {I(1), L(<<I(1), D(One("n", I(1)))>>)}

(* The nested classes a field's declared type can name. *)
BarFlags == {NoFlags, Flags(TRUE, FALSE, FALSE), Flags(FALSE, TRUE, FALSE),
             Flags(FALSE, FALSE, TRUE)}

Bars ==
    {Class("Bar", TRUE, One("n", TInt), Empty, fl) : fl \in BarFlags}
    \cup {Class("Bar", TRUE, [k \in {"n", "m"} |-> TInt], One("m", I(1)),
                Flags(TRUE, FALSE, FALSE))}

(* A field's declaration: none, or a declared type with or without a       *)
(* default.                                                                *)
Decl(ty, dv) == [ty |-> ty, dv |-> dv]
NoDecl == [ty |-> Absent, dv |-> Absent]

DeclsA == {NoDecl, Decl(TStr, Absent), Decl(TStr, S("x")), Decl(TInt, S("x"))}
DeclsB ==
    {NoDecl, Decl(TList(TInt), Absent), Decl(TList(TInt), L(<<I(1)>>)),
     Decl(TBare, Absent), Decl(TBare, L(<<I(1)>>))}
    \cup {Decl(TCls(b), Absent) : b \in Bars}

Schema(da, db, fl) ==
    LET ds == [k \in {"a", "b"} |-> IF k = "a" THEN da ELSE db]
        declared == {k \in {"a", "b"} : ds[k] # NoDecl}
        dflt == {k \in declared : ds[k].dv # Absent}
    IN  Class("Child", declared # {}, [k \in declared |-> ds[k].ty],
              [k \in dflt |-> ds[k].dv], fl)

Classes == {Schema(da, db, fl) : da \in DeclsA, db \in DeclsB, fl \in AllFlags}

Others == {Null, I(1), S("x"), L(<<I(1)>>)}

ItemNames == {"a", "b", "zz"}

------------------------------------------------------------------------------
(* Construction and the views *)

(* No view of the result has been taken. *)
NoOut == [op |-> "none"]

Init ==
    /\ pc = "new"
    /\ cls \in Classes
    /\ input \in Inputs
    /\ lazyAnn \in BOOLEAN
    /\ result = Null
    /\ out = NoOut
    /\ cache = ImportCache
    /\ nextId = ImportNextId
    /\ ret = Null

(* cls(input) *)
Construct ==
    /\ pc = "new"
    /\ result' = Call(cls, input, lazyAnn)
    /\ pc' = IF IsErr(result') THEN "raised" ELSE "built"
    /\ UNCHANGED <<cls, input, lazyAnn, out, cache, nextId, ret>>

(* len(result) *)
DoLen ==
    /\ pc = "built" /\ IsObj(result)
    /\ out' = [op |-> "len", val |-> len(result)]
    /\ UNCHANGED <<pc, cls, input, lazyAnn, result, cache, nextId, ret>>

(* dict(result) *)
DoDict ==
    /\ pc = "built" /\ IsObj(result)
    /\ out' = [op |-> "dict", val |-> dict(result)]
    /\ UNCHANGED <<pc, cls, input, lazyAnn, result, cache, nextId, ret>>

(* result[item] *)
DoGetItem ==
    /\ pc = "built" /\ IsObj(result)
    /\ \E item \in ItemNames :
          out' = [op |-> "getitem", item |-> item, val |-> getitem(result, item)]
    /\ UNCHANGED <<pc, cls, input, lazyAnn, result, cache, nextId, ret>>

(* result == other *)
DoEq ==
    /\ pc = "built" /\ IsObj(result)
    /\ \E other \in Others \cup {input, result} :
          out' = [op |-> "eq", other |-> other, val |-> eq(result, other)]
    /\ UNCHANGED <<pc, cls, input, lazyAnn, result, cache, nextId, ret>>

Next == Construct \/ DoLen \/ DoDict \/ DoGetItem \/ DoEq

Spec == Init /\ [][Next]_vars

------------------------------------------------------------------------------
(* Requests to wrapper_factory *)

InitFactory ==
    /\ pc = "factory"
    /\ cls = JSONWrapper
    /\ input = Null
    /\ lazyAnn = FALSE
    /\ result = Null
    /\ out = NoOut
    /\ cache = ImportCache
    /\ nextId = ImportNextId
    /\ ret = Null

(* one call of wrapper_factory, through functools.lru_cache *)
Lookup(sig) ==
    IF cache_key(sig) \in DOMAIN cache
    THEN /\ ret' = cache[cache_key(sig)]
         /\ UNCHANGED <<cache, nextId>>
    ELSE LET v == wrapper_factory_body(Triple(sig), nextId)
         IN  /\ Cardinality(DOMAIN cache) < Cardinality(DOMAIN ImportCache) + MaxCalls
             /\ ret' = v
             /\ cache' = [k \in DOMAIN cache \cup {cache_key(sig)} |->
                            IF k \in DOMAIN cache THEN cache[k] ELSE v]
             /\ nextId' = IF v.id = nextId THEN nextId + 1 ELSE nextId

(* a direct call of wrapper_factory with any keyword arguments *)
Request ==
    /\ \E sig \in Sigs : Lookup(sig)
    /\ UNCHANGED <<pc, cls, input, lazyAnn, result, out>>

(* JSONclass(...)(cls): the decorator asks for its variant *)
Decorate ==
    /\ \E fl \in AllFlags : Lookup(DecoratorSig(fl))
    /\ UNCHANGED <<pc, cls, input, lazyAnn, result, out>>

NextFactory == Request \/ Decorate

SpecFactory == InitFactory /\ [][NextFactory]_vars

------------------------------------------------------------------------------
(* What the claims speak of, stated on the class and the input alone *)

FlagOn(c) ==
    c.flags.annotations \/ c.flags.annotations_strict \/ c.flags.annotations_type

Constructed == pc # "new" /\ IsDict(input)

(* The declared fields with no default that the input lacks. *)
RequiredAbsent(c, m) ==
    {k \in DOMAIN c.ann : k \notin DOMAIN c.attrs /\ k \notin DOMAIN m.d}

(* The input's keys that are no declared field. *)
Undeclared(c, m) == DOMAIN m.d \ DOMAIN c.ann

(* The declared fields with a default that the input lacks. *)
DefaultedAbsent(c, m) ==
    {k \in DOMAIN c.ann : k \in DOMAIN c.attrs /\ k \notin DOMAIN m.d}

RECURSIVE Satisfies(_, _)
Satisfies(v, ty) ==
    IF ty.k = "str" THEN v.t = "str"
    ELSE IF ty.k = "int" THEN v.t = "int"
    ELSE IF ty.k = "List"
    THEN v.t = "list" /\ \A j \in 1..Len(v.l) : Satisfies(v.l[j], ty.elem)
    ELSE IF ty.k = "cls" THEN v.t = "obj" /\ v.cls = ty.cls
    ELSE TRUE

(* A declared default that is not of its declared type. *)
BadDefault(c) ==
    \E k \in DOMAIN c.ann \cap DOMAIN c.attrs : ~ Satisfies(c.attrs[k], c.ann[k])

(* The input's declared keys whose value is not of the declared type. *)
IllTyped(c, m) ==
    {k \in DOMAIN m.d \cap DOMAIN c.ann :
        c.ann[k].k # "bare" /\ ~ Satisfies(m.d[k], c.ann[k])}

(* The error is the one the construction of a nested declared type raised. *)
FromNested(c, m, e) ==
    \E k \in DOMAIN m.d \cap DOMAIN c.ann :
        /\ c.ann[k].k = "cls"
        /\ Call(c.ann[k].cls, m.d[k], lazyAnn) = e

(* The input without the keys that are no declared field. *)
DeclaredOnly(c, m) == D([k \in DOMAIN m.d \cap DOMAIN c.ann |-> m.d[k]])

(* The error of the checks that come before the one a claim is about. *)
DefaultError(c) ==
    IF c.flags.annotations_type /\ BadDefault(c)
    THEN Err("TypeError", "default") ELSE Null

------------------------------------------------------------------------------
(* C1, as stated: with a flag on, a mapping input that lacks a declared    *)
(* field with no default always raises KeyError.                           *)
C1_AsStated ==
    (Constructed /\ FlagOn(cls) /\ RequiredAbsent(cls, input) # {})
        => (IsErr(result) /\ result.exc = "KeyError")

(* C1, amended: with a flag on, a mapping input that lacks a declared      *)
(* field with no default returns no object: it raises the KeyError of the  *)
(* required-field check, unless annotations_type is on and a declared      *)
(* default fails its declared type, which raises TypeError first. A field  *)
(* with a default never raises that KeyError: when no field without a      *)
(* default is absent, the KeyError can only come from a nested type.       *)
C1_MissingField ==
    (Constructed /\ FlagOn(cls)) =>
        /\ RequiredAbsent(cls, input) # {} =>
              result = IF IsErr(DefaultError(cls)) THEN DefaultError(cls)
                       ELSE Err("KeyError", "missing")
        /\ (RequiredAbsent(cls, input) = {} /\ result = Err("KeyError", "missing"))
              => FromNested(cls, input, result)

C1_Witness ==
    /\ Constructed /\ FlagOn(cls) /\ pc = "raised"
    /\ RequiredAbsent(cls, input) # {}
    /\ DefaultedAbsent(cls, input) # {}
    /\ result = Err("KeyError", "missing")

------------------------------------------------------------------------------
(* C2, as stated: with annotations_strict on, a mapping input with a key   *)
(* that is no declared field always raises KeyError.                       *)
C2_AsStated ==
    (Constructed /\ cls.hasAnn /\ cls.flags.annotations_strict
     /\ Undeclared(cls, input) # {})
        => (IsErr(result) /\ result.exc = "KeyError")

(* C2, amended: with annotations_strict on, a mapping input with a key     *)
(* that is no declared field of the schema returns no object: it raises    *)
(* KeyError (of the required-field check when a field is missing too, of   *)
(* the strict check otherwise), unless annotations_type is on and a        *)
(* declared default fails its declared type, which raises TypeError first. *)
(* With annotations_strict off the undeclared keys cause no error: if the  *)
(* input without them constructs, so does the input, and it keeps them.    *)
C2_UnexpectedField ==
    Constructed =>
        /\ (cls.hasAnn /\ cls.flags.annotations_strict
            /\ Undeclared(cls, input) # {})
              => result = IF IsErr(DefaultError(cls)) THEN DefaultError(cls)
                          ELSE IF RequiredAbsent(cls, input) # {}
                          THEN Err("KeyError", "missing")
                          ELSE Err("KeyError", "unexpected")
        /\ (~ cls.flags.annotations_strict
            /\ ~ IsErr(Call(cls, DeclaredOnly(cls, input), lazyAnn)))
              => (IsObj(result) /\ DOMAIN input.d \subseteq DOMAIN result.o)

C2_Witness ==
    /\ Constructed /\ cls.hasAnn /\ cls.flags.annotations_strict
    /\ Undeclared(cls, input) # {} /\ RequiredAbsent(cls, input) = {}
    /\ result = Err("KeyError", "unexpected")

------------------------------------------------------------------------------
(* C3, as stated: with annotations_type on, a mapping input in which the   *)
(* value of a declared key is not of the declared type always raises       *)
(* TypeError.                                                              *)
C3_AsStated ==
    (Constructed /\ cls.flags.annotations_type /\ IllTyped(cls, input) # {})
        => (IsErr(result) /\ result.exc = "TypeError")

(* C3, amended: with annotations_type on, a mapping input in which the     *)
(* value of a declared key is not of the declared type (one element of a   *)
(* sequence not of the element type is enough) returns no object: it       *)
(* raises TypeError, unless the required-field check or the strict check   *)
(* fails, which raises KeyError first. The keys that are no declared field *)
(* are not type-checked: the TypeError of the check is raised only when a  *)
(* declared key is ill-typed.                                              *)
C3_TypeMismatch ==
    (Constructed /\ cls.flags.annotations_type) =>
        /\ IllTyped(cls, input) # {} =>
              IF IsErr(DefaultError(cls)) THEN result = DefaultError(cls)
              ELSE IF RequiredAbsent(cls, input) # {}
              THEN result = Err("KeyError", "missing")
              ELSE IF cls.flags.annotations_strict /\ Undeclared(cls, input) # {}
              THEN result = Err("KeyError", "unexpected")
              ELSE IsErr(result) /\ result.exc = "TypeError"
        /\ result = Err("TypeError", "type") => IllTyped(cls, input) # {}

C3_Witness ==
    /\ Constructed /\ cls.flags.annotations_type
    /\ "b" \in IllTyped(cls, input)
    /\ cls.ann["b"] = TList(TInt) /\ IsList(input.d["b"])
    /\ Len(input.d["b"].l) = 2 /\ input.d["b"].l[1] = I(1)
    /\ Undeclared(cls, input) # {}
    /\ result = Err("TypeError", "type")

------------------------------------------------------------------------------
(* C4, as stated: with annotations_type on, a mapping input given to a     *)
(* schema that declares a field with a bare list literal as its type       *)
(* always raises TypeError, whatever the input.                            *)
C4_BareListAlwaysRejected ==
    (Constructed /\ cls.flags.annotations_type
     /\ \E k \in DOMAIN cls.ann : cls.ann[k].k = "bare")
        => (IsErr(result) /\ result.exc = "TypeError")

------------------------------------------------------------------------------
(* C5: with a flag on, a successful construction from a mapping holds each *)
(* declared default whose field the input lacks, with exactly the default  *)
(* value; len counts it and dict() includes it; a defaulted field that the *)
(* input has holds the input's value.                                      *)
C5_DefaultsApplied ==
    (pc = "built" /\ IsDict(input) /\ FlagOn(cls)) =>
        /\ IsObj(result)
        /\ \A k \in DefaultedAbsent(cls, input) :
              k \in DOMAIN result.o /\ result.o[k] = cls.attrs[k]
        /\ \A k \in DOMAIN cls.ann \cap DOMAIN cls.attrs \cap DOMAIN input.d :
              PyEq(result.o[k], input.d[k])
        /\ out.op = "len" =>
              out.val = Cardinality(DOMAIN input.d \cup DefaultedAbsent(cls, input))
        /\ out.op = "dict" =>
              \A k \in DefaultedAbsent(cls, input) :
                  k \in DOMAIN out.val.d /\ out.val.d[k] = cls.attrs[k]

C5_Witness ==
    /\ pc = "built" /\ IsDict(input) /\ cls.flags.annotations_type
    /\ DefaultedAbsent(cls, input) = {"a"}
    /\ "b" \in DOMAIN cls.attrs /\ "b" \in DOMAIN input.d
    /\ input.d["b"] # cls.attrs["b"]
    /\ out.op = "dict" /\ out.val.d["a"] = cls.attrs["a"]
    /\ out.val.d["b"] = input.d["b"]

------------------------------------------------------------------------------
(* C6, as stated: when the mapping input satisfies the schema and no       *)
(* default is injected, dict() of the constructed object is structurally   *)
(* the input, with no object left at any depth.                            *)
C6_RoundTrip ==
    (pc = "built" /\ IsDict(input) /\ out.op = "dict"
     /\ RequiredAbsent(cls, input) = {} /\ DefaultedAbsent(cls, input) = {}
     /\ IllTyped(cls, input) = {})
        => out.val = input

------------------------------------------------------------------------------
(* C7, as stated: two requests to wrapper_factory with the same three flag *)
(* values are answered with the same variant, however the flags were       *)
(* passed, so the cache holds one variant for each triple.                 *)
C7_OneVariantPerTriple ==
    \A k1, k2 \in DOMAIN cache :
        Triple(k1) = Triple(k2) => cache[k1] = cache[k2]

------------------------------------------------------------------------------
(* C8, as stated: comparing an object with a value that is no mapping and  *)
(* no object raises TypeError.                                             *)
C8_AsStated ==
    (out.op = "eq" /\ ~ IsDict(out.other) /\ ~ IsObj(out.other))
        => (IsErr(out.val) /\ out.val.exc = "TypeError")

(* C8, amended: comparing an object with a value that is no mapping and no *)
(* object (null, a number, text, a sequence) returns False and raises      *)
(* nothing.                                                                *)
C8_EqOtherShapes ==
    (out.op = "eq" /\ ~ IsDict(out.other) /\ ~ IsObj(out.other))
        => out.val = Bool(FALSE)

C8_Witness ==
    /\ out.op = "eq" /\ out.other = L(<<I(1)>>) /\ out.val = Bool(FALSE)

------------------------------------------------------------------------------
(* C9, as stated: under a parent with the required-field or strict check   *)
(* on, a mapping under a key whose declared type is a wrapper class is     *)
(* built by that class under its own flags: if that construction raises,   *)
(* the parent raises the same error, and otherwise the field holds what it *)
(* built. Stated for the parents whose own checks pass.                    *)
C9_NestedOwnConfiguration ==
    (/\ Constructed
     /\ cls.flags.annotations \/ cls.flags.annotations_strict
     /\ ~ cls.flags.annotations_type
     /\ "b" \in DOMAIN input.d \cap DOMAIN cls.ann
     /\ cls.ann["b"].k = "cls" /\ IsDict(input.d["b"])
     /\ RequiredAbsent(cls, input) = {}
     /\ cls.flags.annotations_strict => Undeclared(cls, input) = {})
        => LET nested == Call(cls.ann["b"].cls, input.d["b"], lazyAnn)
           IN  IF IsErr(nested) THEN result = nested
               ELSE IsObj(result) /\ result.o["b"] = nested

------------------------------------------------------------------------------
(* C10, as stated: obj[name] is the field's value when name is a field of  *)
(* the object, and raises KeyError for every other name.                   *)
C10_GetItem ==
    out.op = "getitem" =>
        IF out.item \in DOMAIN result.o
        THEN out.val = result.o[out.item]
        ELSE out.val = Err("KeyError", "getitem")

------------------------------------------------------------------------------
(* The fields a successful construction of class c from mapping m is said  *)
(* to hold under every configuration: the defaulted fields and m's keys.   *)
DefaultedAndInputKeys(c, m) == Defaulted(c) \cup DOMAIN m.d

(* C11, as stated: under each of the eight configurations, all flags off   *)
(* included, a successful construction from a mapping yields an object     *)
(* whose fields are exactly the declared fields with a default and the     *)
(* input's keys, and whose length is the number of those fields.           *)
C11_AsStated ==
    (pc = "built" /\ IsDict(input)) =>
        /\ IsObj(result)
        /\ DOMAIN result.o = DefaultedAndInputKeys(cls, input)
        /\ out.op = "len" =>
              out.val = Cardinality(DefaultedAndInputKeys(cls, input))

(* C11, amended: a successful construction from a mapping yields an object *)
(* whose fields are exactly the input's keys, together with the declared   *)
(* fields with a default when a flag is on; with all flags off the         *)
(* defaults are no fields of the object. No other field appears, and the   *)
(* length is the number of those fields.                                   *)
C11_FieldSet ==
    (pc = "built" /\ IsDict(input)) =>
        LET fields == IF FlagOn(cls)
                      THEN DefaultedAndInputKeys(cls, input)
                      ELSE DOMAIN input.d
        IN  /\ IsObj(result)
            /\ DOMAIN result.o = fields
            /\ out.op = "len" => out.val = Cardinality(fields)

(* A flag is on, one default fills an absent field, the input brings a key *)
(* that is no declared field, and the length counts both.                  *)
C11_Witness ==
    /\ pc = "built" /\ IsDict(input) /\ FlagOn(cls)
    /\ DefaultedAbsent(cls, input) = {"a"}
    /\ Undeclared(cls, input) = {"c"}
    /\ DOMAIN result.o = {"a", "b", "c"}
    /\ out.op = "len" /\ out.val = 3

------------------------------------------------------------------------------
(* C12, as stated: with the type check on, a mapping under a key whose     *)
(* declared type is a wrapper class, and which that class builds without   *)
(* error, does not stop the construction: the parent is built and the      *)
(* field holds the object the nested class built. Stated for the parents   *)
(* whose other checks pass.                                                *)
C12_NestedUnderTypeCheck ==
    (/\ Constructed
     /\ cls.flags.annotations_type
     /\ "b" \in DOMAIN input.d \cap DOMAIN cls.ann
     /\ cls.ann["b"].k = "cls" /\ IsDict(input.d["b"])
     /\ RequiredAbsent(cls.ann["b"].cls, input.d["b"]) = {}
     /\ Undeclared(cls.ann["b"].cls, input.d["b"]) = {}
     /\ IllTyped(cls.ann["b"].cls, input.d["b"]) = {}
     /\ ~ IsErr(Call(cls.ann["b"].cls, input.d["b"], lazyAnn))
     /\ DefaultError(cls) = Null
     /\ RequiredAbsent(cls, input) = {}
     /\ cls.flags.annotations_strict => Undeclared(cls, input) = {}
     /\ IllTyped(cls, input) \ {"b"} = {})
        => /\ IsObj(result)
           /\ result.o["b"] = Call(cls.ann["b"].cls, input.d["b"], lazyAnn)

====
